---- MODULE Spec2Model ----
(***************************************************************************)
(* fakesnow/__init__.py: the patch() context manager, which substitutes    *)
(* the snowflake connector entry points by fakes for the duration of a     *)
(* scope, and the server() context manager, which runs the fake server on  *)
(* a background thread.                                                     *)
(***************************************************************************)
EXTENDS Integers, Sequences, FiniteSets, TLC

\* ------------------------------------------------------------------ bounds
\* patch() invocations in one behaviour (rejected ones included)
MaxCalls == 2
\* length of the extra_targets list of one invocation
MaxExtras == 2

\* ------------------------------------------------------------------ values
\* A module-level binding. t: "orig" (a real callable of the connector),
\* "other" (a callable that is no connector entry point), "absent" (the name
\* is not in the module's __dict__) or "mock" (a MagicMock made by mock.patch).
\* For a mock, k and s name its side_effect (s is the session whose engine
\* fs.connect belongs to; 0 for the module-level fakes.write_pandas), ses the
\* patch() invocation that made it and at the target position it was made for.
Orig(k) == [t |-> "orig", k |-> k, s |-> 0, ses |-> 0, at |-> 0]

Other == [t |-> "other", k |-> "helper", s |-> 0, ses |-> 0, at |-> 0]

Absent == [t |-> "absent", k |-> "", s |-> 0, ses |-> 0, at |-> 0]

Mock(fake, n, i) == [t |-> "mock", k |-> fake.k, s |-> fake.s, ses |-> n, at |-> i]

\* isinstance(v, mock.MagicMock)
IsMock(v) == v.t = "mock"

\* fs.connect of the engine of session n, and fakes.write_pandas
FakeConnect(n) == [k |-> "connect", s |-> n]

FakeWritePandas == [k |-> "write_pandas", s |-> 0]

NoFake == [k |-> "", s |-> 0]

\* ------------------------------------------------------------------ modules
SC == <<"snowflake", "connector">>

PT == <<"snowflake", "connector", "pandas_tools">>

\* modules of the caller's code base that import the connector entry points
UserModules == {<<"app">>, <<"lib">>}

\* a module name no import can resolve
NoModule == <<"nomod">>

Modules == {SC, PT} \cup UserModules

SymNames == {"connect", "write_pandas", "helper", "nosuch"}

std_targets == << SC \o <<"connect">>, PT \o <<"write_pandas">> >>

\* the qualified names a caller may pass as extra targets
TargetPool ==
    { <<"app", "connect">>, <<"app", "write_pandas">>, <<"lib", "connect">>,
      <<"app", "helper">>, <<"app", "nosuch">>, NoModule \o <<"connect">>,
      SC \o <<"connect">> }

ExtraLists == UNION { [1..n -> TargetPool] : n \in 0..MaxExtras }

\* im.split(".")[:-1] joined, and im.split(".")[-1]
ModuleNameOf(im) == SubSeq(im, 1, Len(im) - 1)

FnNameOf(im) == im[Len(im)]

\* [extra_targets] if isinstance(extra_targets, str) else extra_targets
AsList(one) == << one >>

\* the order in which the loop visits the targets
AllTargetsExtrasFirst(extras) == extras \o std_targets

AllTargets(extras) == std_targets \o extras

VARIABLES
    syms,       \* module -> symbol -> current binding (Absent while unloaded)
    loaded,     \* sys.modules
    pc,         \* position of the patch() invocation that passed the guard
    calls,      \* patch() invocations made so far
    created,    \* FakeSnow engines created so far; the current session's id
    closed,     \* session -> number of duck_conn.close() calls
    fake_fns,   \* the registry of the current invocation
    targets,    \* the list the loop iterates over
    idx,        \* position of the loop in targets
    stack,      \* the ExitStack: undo records, last pushed last
    bodyErr,    \* the caller's block raised
    outcome,    \* how the last invocation that passed the guard ended
    pre,        \* syms when the current invocation passed the guard
    applied,    \* every undo record the current invocation pushed, in order
    imported,   \* modules the current invocation's loop imported
    failedAt,   \* the qualified name at which setup raised
    relErr,     \* stack.close() holds an exception raised by one of its callbacks
    blockLoaded \* modules the caller's code imported while a scope was open

patchVars == << syms, loaded, pc, calls, created, closed, fake_fns, targets, idx,
                stack, bodyErr, outcome, pre, applied, imported, failedAt, relErr,
                blockLoaded >>

VARIABLES
    hid,          \* server() invocations made so far; the current handle
    spc,          \* position of the controlling context in server()
    portArg,      \* the port argument
    spArg,        \* the session_parameters argument
    port,         \* the local port: the argument, or the probed port
    probe,        \* the throwaway socket: "none", "bound" or "closed"
    thread,       \* the background thread
    started,      \* server.started
    should_exit,  \* server.should_exit
    listening,    \* the port the background server accepts on, 0 if none
    taken,        \* ports bound by other processes
    params,       \* what the generator yielded
    blockErr,     \* the caller's block raised
    sout,         \* how the last server() invocation ended
    hist          \* handle -> the state in which it was left for good

serverVars == << hid, spc, portArg, spArg, port, probe, thread, started, should_exit,
                 listening, taken, params, blockErr, sout, hist >>

vars == << patchVars, serverVars >>

Sessions == 1..MaxCalls

EmptyRegistry == [key \in {} |-> NoFake]

\* what executing a user module binds: from snowflake.connector import connect,
\* from snowflake.connector.pandas_tools import write_pandas, def helper
ModuleBody(tab) ==
    [s \in SymNames |->
        CASE s = "connect" -> tab[SC]["connect"]
          [] s = "write_pandas" -> tab[PT]["write_pandas"]
          [] s = "helper" -> Other
          [] OTHER -> Absent]

LoadModule(tab, m) == [tab EXCEPT ![m] = ModuleBody(tab)]

\* the state once fakesnow itself has been imported (lines 11-12)
PatchInit ==
    /\ syms = [m \in Modules |-> [s \in SymNames |->
                  IF m = SC /\ s = "connect" THEN Orig("connect")
                  ELSE IF m = PT /\ s = "write_pandas" THEN Orig("write_pandas")
                  ELSE Absent]]
    /\ loaded = {SC, PT}
    /\ pc = "idle"
    /\ calls = 0
    /\ created = 0
    /\ closed = [n \in Sessions |-> 0]
    /\ fake_fns = EmptyRegistry
    /\ targets = << >>
    /\ idx = 0
    /\ stack = << >>
    /\ bodyErr = FALSE
    /\ outcome = "none"
    /\ pre = syms
    /\ applied = << >>
    /\ imported = {}
    /\ failedAt = << >>
    /\ relErr = FALSE
    /\ blockLoaded = {}

\* the caller's code imports one of its modules, outside a patch() invocation
\* or inside the scoped block
Import(m) ==
    /\ pc \in {"idle", "body"}
    /\ m \in UserModules \ loaded
    /\ syms' = LoadModule(syms, m)
    /\ loaded' = loaded \cup {m}
    /\ blockLoaded' = IF pc = "body" THEN blockLoaded \cup {m} ELSE blockLoaded
    /\ UNCHANGED << serverVars, relErr, pc, calls, created, closed, fake_fns, targets, idx,
                    stack, bodyErr, outcome, pre, applied, imported, failedAt >>

\* lines 61-64: the registry is keyed by the current values of the two names
Registry(tab, n) ==
    [key \in {tab[SC]["connect"], tab[PT]["write_pandas"]} |->
        IF key = tab[PT]["write_pandas"] THEN FakeWritePandas ELSE FakeConnect(n)]

\* the guard evaluated only after the engine has been created
PatchGuardFailsLate ==
    /\ pc \in {"idle", "body"}
    /\ calls < MaxCalls
    /\ IsMock(syms[SC]["connect"])
    /\ calls' = calls + 1
    /\ created' = created + 1
    /\ UNCHANGED << serverVars, relErr, blockLoaded, syms, loaded, pc, closed, fake_fns, targets, idx,
                    stack, bodyErr, outcome, pre, applied, imported, failedAt >>

\* line 52: patch() is called, from the top level or from inside the block of
\* the open scope, while snowflake.connector.connect is a MagicMock: the assert
\* fails before anything else has run, whatever the arguments
PatchGuardFails ==
    /\ pc \in {"idle", "body"}
    /\ calls < MaxCalls
    /\ IsMock(syms[SC]["connect"])
    /\ calls' = calls + 1
    /\ UNCHANGED << serverVars, relErr, blockLoaded, syms, loaded, pc, created, closed, fake_fns, targets, idx,
                    stack, bodyErr, outcome, pre, applied, imported, failedAt >>

\* lines 52-68: the guard passes; the engine, the registry, the empty stack
PatchCall(extras) ==
    /\ pc = "idle"
    /\ calls < MaxCalls
    /\ ~IsMock(syms[SC]["connect"])
    /\ calls' = calls + 1
    /\ created' = created + 1
    /\ fake_fns' = Registry(syms, created + 1)
    /\ targets' = AllTargets(extras)
    /\ idx' = 1
    /\ stack' = << >>
    /\ pc' = "loop"
    /\ bodyErr' = FALSE
    /\ outcome' = "none"
    /\ pre' = syms
    /\ applied' = << >>
    /\ imported' = {}
    /\ failedAt' = << >>
    /\ relErr' = FALSE
    /\ UNCHANGED << serverVars, blockLoaded, syms, loaded, closed >>

\* line 74: sys.modules.get(module_name) or importlib.import_module(module_name)
Importable(m) == m \in Modules

ResolveModule(tab, m) == IF m \in loaded THEN tab ELSE LoadModule(tab, m)

\* line 80: the target is already a substitution artifact
Skips(fn) == IsMock(fn)

\* fake_fns.get(fn, fs.connect): a default for what the registry does not hold
LookupDefault(reg, fn) == IF fn \in DOMAIN reg THEN reg[fn] ELSE FakeConnect(created)

\* line 83: fake_fns.get(fn)
Lookup(reg, fn) == IF fn \in DOMAIN reg THEN reg[fn] ELSE NoFake

\* lines 86-87: mock.patch(im, side_effect=fake) entered on the stack; the
\* patcher keeps the module, the name and the value it found there
UndoRecord(m, f, original) == [mod |-> m, fn |-> f, orig |-> original]

Install(tab, m, f, fake) == [tab EXCEPT ![m][f] = Mock(fake, created, idx)]

\* an assert or the import fails during the loop: the generator raises out of
\* __enter__ from outside the try block, so neither stack.close() nor
\* fs.duck_conn.close() runs
SetupRaises(tab, why, im) ==
    /\ syms' = tab
    /\ pc' = "idle"
    /\ outcome' = why
    /\ failedAt' = im
    /\ UNCHANGED << serverVars, relErr, blockLoaded, calls, created, closed, fake_fns, targets, idx, stack, bodyErr,
                    pre, applied >>

\* the fake chosen by the name of the target, with no test for a MagicMock
FakeByName(f) == IF f = "write_pandas" THEN FakeWritePandas ELSE FakeConnect(created)

\* one iteration of a loop that substitutes whatever the name is bound to
ProcessTargetByName ==
    /\ pc = "loop"
    /\ idx <= Len(targets)
    /\ LET im == targets[idx]
           m == ModuleNameOf(im)
           f == FnNameOf(im)
       IN  IF ~(m \in loaded) /\ ~Importable(m)
           THEN /\ SetupRaises(syms, "ModuleNotFound", im)
                /\ UNCHANGED << serverVars, relErr, blockLoaded, loaded, imported >>
           ELSE LET tab == ResolveModule(syms, m)
                    fn == tab[m][f]
                IN  /\ loaded' = loaded \cup {m}
                    /\ imported' = IF m \in loaded THEN imported ELSE imported \cup {m}
                    /\ IF fn = Absent
                       THEN SetupRaises(tab, "NoModuleVar", im)
                       ELSE /\ syms' = Install(tab, m, f, FakeByName(f))
                            /\ stack' = Append(stack, UndoRecord(m, f, fn))
                            /\ applied' = Append(applied, UndoRecord(m, f, fn))
                            /\ idx' = idx + 1
                            /\ UNCHANGED << serverVars, relErr, blockLoaded, pc, calls, created, closed, fake_fns,
                                            targets, bodyErr, outcome, pre, failedAt >>

\* lines 70-87: one iteration of the loop
ProcessTarget ==
    /\ pc = "loop"
    /\ idx <= Len(targets)
    /\ LET im == targets[idx]
           m == ModuleNameOf(im)
           f == FnNameOf(im)
       IN  IF ~(m \in loaded) /\ ~Importable(m)
           THEN /\ SetupRaises(syms, "ModuleNotFound", im)
                /\ UNCHANGED << serverVars, relErr, blockLoaded, loaded, imported >>
           ELSE LET tab == ResolveModule(syms, m)
                    fn == tab[m][f]
                    fake == Lookup(fake_fns, fn)
                IN  /\ loaded' = loaded \cup {m}
                    /\ imported' = IF m \in loaded THEN imported ELSE imported \cup {m}
                    /\ IF fn = Absent
                       THEN SetupRaises(tab, "NoModuleVar", im)
                       ELSE IF Skips(fn)
                       THEN /\ syms' = tab
                            /\ idx' = idx + 1
                            /\ UNCHANGED << serverVars, relErr, blockLoaded, pc, calls, created, closed, fake_fns, targets,
                                            stack, bodyErr, outcome, pre, applied, failedAt >>
                       ELSE IF fake = NoFake
                       THEN SetupRaises(tab, "Unmapped", im)
                       ELSE /\ syms' = Install(tab, m, f, fake)
                            /\ stack' = Append(stack, UndoRecord(m, f, fn))
                            /\ applied' = Append(applied, UndoRecord(m, f, fn))
                            /\ idx' = idx + 1
                            /\ UNCHANGED << serverVars, relErr, blockLoaded, pc, calls, created, closed, fake_fns, targets,
                                            bodyErr, outcome, pre, failedAt >>

\* line 90: the loop is over and the generator yields to the caller's block
EnterBody ==
    /\ pc = "loop"
    /\ idx > Len(targets)
    /\ pc' = "body"
    /\ UNCHANGED << serverVars, relErr, blockLoaded, syms, loaded, calls, created, closed, fake_fns, targets, idx, stack,
                    bodyErr, outcome, pre, applied, imported, failedAt >>

\* the yield without a try/finally around it: an error of the block leaves the
\* generator at once
BodyExitNoFinally(err) ==
    /\ pc = "body"
    /\ pc' = IF err THEN "idle" ELSE "teardown"
    /\ bodyErr' = err
    /\ outcome' = IF err THEN "BodyError" ELSE outcome
    /\ UNCHANGED << serverVars, relErr, blockLoaded, syms, loaded, calls, created, closed, fake_fns, targets, idx, stack,
                    pre, applied, imported, failedAt >>

\* lines 89-91: the caller's block ends, normally or by raising; either way
\* control enters the finally clause
BodyExit(err) ==
    /\ pc = "body"
    /\ pc' = "teardown"
    /\ bodyErr' = err
    /\ UNCHANGED << serverVars, relErr, blockLoaded, syms, loaded, calls, created, closed, fake_fns, targets, idx, stack,
                    outcome, pre, applied, imported, failedAt >>

\* mock.patch.__exit__: setattr(target, attribute, original)
Restore(tab, rec) == [tab EXCEPT ![rec.mod][rec.fn] = rec.orig]

\* the callbacks run first in, first out
UndoStepFifo ==
    /\ pc = "teardown"
    /\ stack # << >>
    /\ syms' = Restore(syms, stack[1])
    /\ stack' = SubSeq(stack, 2, Len(stack))
    /\ UNCHANGED << serverVars, relErr, blockLoaded, loaded, pc, calls, created, closed, fake_fns, targets, idx,
                    bodyErr, outcome, pre, applied, imported, failedAt >>

\* line 92: stack.close() pops the callbacks last in, first out
UndoStep ==
    /\ pc = "teardown"
    /\ stack # << >>
    /\ syms' = Restore(syms, stack[Len(stack)])
    /\ stack' = SubSeq(stack, 1, Len(stack) - 1)
    /\ UNCHANGED << serverVars, relErr, blockLoaded, loaded, pc, calls, created, closed, fake_fns, targets, idx,
                    bodyErr, outcome, pre, applied, imported, failedAt >>

\* line 93: fs.duck_conn.close(), then the generator ends and the block's error,
\* if any, propagates
CloseEngine ==
    /\ pc = "teardown"
    /\ stack = << >>
    /\ ~relErr
    /\ closed' = [closed EXCEPT ![created] = @ + 1]
    /\ pc' = "idle"
    /\ outcome' = IF bodyErr THEN "BodyError" ELSE "Ok"
    /\ UNCHANGED << serverVars, relErr, blockLoaded, syms, loaded, calls, created, fake_fns, targets, idx, stack,
                    bodyErr, pre, applied, imported, failedAt >>

\* line 92: the __exit__ of one patcher raises, before or after it has put the
\* original back; ExitStack.close() keeps the exception and goes on with the
\* callbacks that are left
UndoStepFails(restored) ==
    /\ pc = "teardown"
    /\ stack # << >>
    /\ syms' = IF restored THEN Restore(syms, stack[Len(stack)]) ELSE syms
    /\ stack' = SubSeq(stack, 1, Len(stack) - 1)
    /\ relErr' = TRUE
    /\ UNCHANGED << serverVars, blockLoaded, loaded, pc, calls, created, closed, fake_fns, targets, idx,
                    bodyErr, outcome, pre, applied, imported, failedAt >>

\* line 92: with its callbacks done, stack.close() raises the exception it
\* kept; line 93 is not reached and that exception leaves the generator
StackCloseRaises ==
    /\ pc = "teardown"
    /\ stack = << >>
    /\ relErr
    /\ pc' = "idle"
    /\ outcome' = "ReleaseError"
    /\ UNCHANGED << serverVars, relErr, blockLoaded, syms, loaded, calls, created, closed, fake_fns,
                    targets, idx, stack, bodyErr, pre, applied, imported, failedAt >>

\* line 93: fs.duck_conn.close() is called and raises; its exception leaves
\* the generator
CloseEngineFails ==
    /\ pc = "teardown"
    /\ stack = << >>
    /\ ~relErr
    /\ closed' = [closed EXCEPT ![created] = @ + 1]
    /\ pc' = "idle"
    /\ outcome' = "ReleaseError"
    /\ UNCHANGED << serverVars, relErr, blockLoaded, syms, loaded, calls, created, fake_fns, targets,
                    idx, stack, bodyErr, pre, applied, imported, failedAt >>

\* ------------------------------------------------------------------ server()
\* server() invocations in one behaviour
MaxServers == 2

\* the port argument: None, 0 or a port number
PortArgs == {[given |-> FALSE, n |-> 0], [given |-> TRUE, n |-> 0], [given |-> TRUE, n |-> 8080]}

\* ports the operating system hands out for a bind to port 0
EphemeralPorts == {49152, 49153}

AllPorts == EphemeralPorts \cup {8080}

TelemetryKey == "CLIENT_OUT_OF_BAND_TELEMETRY_ENABLED"

ParamKeys == {TelemetryKey, "TIMEZONE"}

\* Python values, by their literal
ParamValues == {"False", "True", "UTC"}

ParamMaps == UNION { [D -> ParamValues] : D \in SUBSET ParamKeys }

EmptyMap == [k \in {} |-> "False"]

\* the session_parameters argument: None or a dict
SessionArgs == {[none |-> TRUE, map |-> EmptyMap]} \cup {[none |-> FALSE, map |-> d] : d \in ParamMaps}

\* line 140: {"CLIENT_OUT_OF_BAND_TELEMETRY_ENABLED": False}
DefaultSessionParameters == [k \in {TelemetryKey} |-> "False"]

\* line 140: session_parameters or {}
OrEmpty(arg) == IF arg.none \/ DOMAIN arg.map = {} THEN EmptyMap ELSE arg.map

\* the operands of the union swapped: the default overrides the caller
DictUnionLeftWins(d1, d2) ==
    [k \in DOMAIN d1 \cup DOMAIN d2 |-> IF k \in DOMAIN d1 THEN d1[k] ELSE d2[k]]

\* line 140: d1 | d2
DictUnion(d1, d2) ==
    [k \in DOMAIN d1 \cup DOMAIN d2 |-> IF k \in DOMAIN d2 THEN d2[k] ELSE d1[k]]

\* lines 132-143: the yielded dict
ConnectionParams(p, arg) ==
    [set |-> TRUE, user |-> "fake", password |-> "snow", account |-> "fakesnow",
     host |-> "localhost", port |-> p, protocol |-> "http",
     session_parameters |-> DictUnion(DefaultSessionParameters, OrEmpty(arg)),
     network_timeout |-> 1]

NoParams ==
    [set |-> FALSE, user |-> "", password |-> "", account |-> "", host |-> "",
     port |-> 0, protocol |-> "", session_parameters |-> EmptyMap, network_timeout |-> 0]

\* line 115: not port
Falsy(arg) == ~arg.given \/ arg.n = 0

Handles == 1..MaxServers

ServerInit ==
    /\ hid = 0
    /\ spc = "idle"
    /\ portArg = [given |-> FALSE, n |-> 0]
    /\ spArg = [none |-> TRUE, map |-> EmptyMap]
    /\ port = 0
    /\ probe = "none"
    /\ thread = "none"
    /\ started = FALSE
    /\ should_exit = FALSE
    /\ listening = 0
    /\ taken = {}
    /\ params = NoParams
    /\ blockErr = FALSE
    /\ sout = "none"
    /\ hist = [h \in Handles |-> "none"]

\* lines 97-115: a call of server()
ServerCall(pa, sa) ==
    /\ spc = "idle"
    /\ hid < MaxServers
    /\ hid' = hid + 1
    /\ portArg' = pa
    /\ spArg' = sa
    /\ port' = pa.n
    /\ spc' = IF Falsy(pa) THEN "probe" ELSE "create"
    /\ probe' = "none"
    /\ thread' = "none"
    /\ started' = FALSE
    /\ should_exit' = FALSE
    /\ listening' = 0
    /\ params' = NoParams
    /\ blockErr' = FALSE
    /\ sout' = "none"
    /\ UNCHANGED << patchVars, taken, hist >>

\* lines 116-118: bind the throwaway socket to port 0 and read the port back;
\* with no port left the bind raises and closing() closes the socket
ProbeBind ==
    /\ spc = "probe"
    /\ IF EphemeralPorts \ taken = {}
       THEN /\ spc' = "idle"
            /\ sout' = "OSError"
            /\ probe' = "closed"
            /\ UNCHANGED port
       ELSE /\ \E p \in EphemeralPorts \ taken : port' = p
            /\ probe' = "bound"
            /\ spc' = "probe_close"
            /\ UNCHANGED sout
    /\ UNCHANGED << patchVars, hid, portArg, spArg, thread, started, should_exit,
                    listening, taken, params, blockErr, hist >>

\* the throwaway socket left open when the with block is left
ProbeCloseSkipped ==
    /\ spc = "probe_close"
    /\ spc' = "create"
    /\ UNCHANGED << patchVars, hid, portArg, spArg, port, probe, thread, started,
                    should_exit, listening, taken, params, blockErr, sout, hist >>

\* line 116: leaving the with block closes the throwaway socket
ProbeClose ==
    /\ spc = "probe_close"
    /\ probe' = "closed"
    /\ spc' = "create"
    /\ UNCHANGED << patchVars, hid, portArg, spArg, port, thread, started, should_exit,
                    listening, taken, params, blockErr, sout, hist >>

\* lines 120-122: the uvicorn server and the thread object
CreateServer ==
    /\ spc = "create"
    /\ port # 0
    /\ thread' = "new"
    /\ spc' = "start"
    /\ UNCHANGED << patchVars, hid, portArg, spArg, port, probe, started, should_exit,
                    listening, taken, params, blockErr, sout, hist >>

\* line 123: thread.start()
ThreadStart ==
    /\ spc = "start"
    /\ thread' = "running"
    /\ spc' = "poll_alive"
    /\ UNCHANGED << patchVars, hid, portArg, spArg, port, probe, started, should_exit,
                    listening, taken, params, blockErr, sout, hist >>

\* thread.is_alive()
IsAlive(th) == th \in {"running", "bound", "serving"}

\* a poll that gives up after a first look, whatever the thread is doing
PollAliveGivesUp ==
    /\ spc = "poll_alive"
    /\ spc' = "check"
    /\ UNCHANGED << patchVars, hid, portArg, spArg, port, probe, thread, started,
                    should_exit, listening, taken, params, blockErr, sout, hist >>

\* line 125, first operand: thread.is_alive()
PollAlive ==
    /\ spc = "poll_alive"
    /\ spc' = IF IsAlive(thread) THEN "poll_started" ELSE "check"
    /\ UNCHANGED << patchVars, hid, portArg, spArg, port, probe, thread, started,
                    should_exit, listening, taken, params, blockErr, sout, hist >>

\* lines 125-126, second operand: not server.started, then sleep(0.1)
PollStarted ==
    /\ spc = "poll_started"
    /\ spc' = IF started THEN "check" ELSE "poll_alive"
    /\ UNCHANGED << patchVars, hid, portArg, spArg, port, probe, thread, started,
                    should_exit, listening, taken, params, blockErr, sout, hist >>

\* the loop left behind with no test of server.started after it
CheckStartedNoRaise ==
    /\ spc = "check"
    /\ params' = ConnectionParams(port, spArg)
    /\ spc' = "yielded"
    /\ UNCHANGED << patchVars, hid, portArg, spArg, port, probe, thread, started,
                    should_exit, listening, taken, blockErr, sout, hist >>

\* the exit request issued at the yield instead of after the block
CheckStartedExitEarly ==
    /\ spc = "check"
    /\ IF ~started
       THEN /\ spc' = "idle"
            /\ sout' = "StartupFailure"
            /\ hist' = [hist EXCEPT ![hid] = "StartupFailed"]
            /\ UNCHANGED << params, should_exit >>
       ELSE /\ params' = ConnectionParams(port, spArg)
            /\ spc' = "yielded"
            /\ should_exit' = TRUE
            /\ UNCHANGED << sout, hist >>
    /\ UNCHANGED << patchVars, hid, portArg, spArg, port, probe, thread, started,
                    listening, taken, blockErr >>

\* the test of server.started placed inside the try block: a failed startup
\* runs the finally clause
CheckStartedInsideTry ==
    /\ spc = "check"
    /\ IF ~started
       THEN /\ spc' = "finally"
            /\ blockErr' = TRUE
            /\ UNCHANGED << params, sout, hist >>
       ELSE /\ params' = ConnectionParams(port, spArg)
            /\ spc' = "yielded"
            /\ UNCHANGED << sout, hist, blockErr >>
    /\ UNCHANGED << patchVars, hid, portArg, spArg, port, probe, thread, started,
                    should_exit, listening, taken >>

\* lines 128-143: raise unless the server has started, else yield the parameters
CheckStarted ==
    /\ spc = "check"
    /\ IF ~started
       THEN /\ spc' = "idle"
            /\ sout' = "StartupFailure"
            /\ hist' = [hist EXCEPT ![hid] = "StartupFailed"]
            /\ UNCHANGED params
       ELSE /\ params' = ConnectionParams(port, spArg)
            /\ spc' = "yielded"
            /\ UNCHANGED << sout, hist >>
    /\ UNCHANGED << patchVars, hid, portArg, spArg, port, probe, thread, started,
                    should_exit, listening, taken, blockErr >>

\* lines 131-144: the caller's block ends, normally or by raising
BlockExit(err) ==
    /\ spc = "yielded"
    /\ blockErr' = err
    /\ spc' = "finally"
    /\ UNCHANGED << patchVars, hid, portArg, spArg, port, probe, thread, started,
                    should_exit, listening, taken, params, sout, hist >>

\* the finally clause going to the join with the exit request left out
RequestExitNoFlag ==
    /\ spc = "finally"
    /\ spc' = "join"
    /\ UNCHANGED << patchVars, hid, portArg, spArg, port, probe, thread, started,
                    should_exit, listening, taken, params, blockErr, sout, hist >>

\* line 145: server.should_exit = True
RequestExit ==
    /\ spc = "finally"
    /\ should_exit' = TRUE
    /\ spc' = "join"
    /\ UNCHANGED << patchVars, hid, portArg, spArg, port, probe, thread, started,
                    listening, taken, params, blockErr, sout, hist >>

\* a join that gives up waiting
JoinNoWait ==
    /\ spc = "join"
    /\ spc' = "idle"
    /\ sout' = IF blockErr THEN "BlockError" ELSE "Ok"
    /\ hist' = [hist EXCEPT ![hid] = "Stopped"]
    /\ UNCHANGED << patchVars, hid, portArg, spArg, port, probe, thread, started,
                    should_exit, listening, taken, params, blockErr >>

\* line 147: thread.join() returns once the thread has ended; then the
\* generator ends and the block's error, if any, propagates
Join ==
    /\ spc = "join"
    /\ ~IsAlive(thread)
    /\ spc' = "idle"
    /\ sout' = IF blockErr THEN "BlockError" ELSE "Ok"
    /\ hist' = [hist EXCEPT ![hid] = "Stopped"]
    /\ UNCHANGED << patchVars, hid, portArg, spArg, port, probe, thread, started,
                    should_exit, listening, taken, params, blockErr >>

\* server.run on the background thread: the listening socket is bound to the
\* configured port
ThreadBind ==
    /\ thread = "running"
    /\ ~(port \in taken)
    /\ listening' = port
    /\ thread' = "bound"
    /\ UNCHANGED << patchVars, hid, spc, portArg, spArg, port, probe, started,
                    should_exit, taken, params, blockErr, sout, hist >>

\* server.run: startup is complete, the server sets started
ThreadStarted ==
    /\ thread = "bound"
    /\ started' = TRUE
    /\ thread' = "serving"
    /\ UNCHANGED << patchVars, hid, spc, portArg, spArg, port, probe, should_exit,
                    listening, taken, params, blockErr, sout, hist >>

\* server.run: the application raises during startup, or the port cannot be
\* bound; the thread ends without having set started
ThreadStartupFails ==
    /\ thread \in {"running", "bound"}
    /\ thread' = "dead"
    /\ listening' = 0
    /\ UNCHANGED << patchVars, hid, spc, portArg, spArg, port, probe, started,
                    should_exit, taken, params, blockErr, sout, hist >>

\* server.run: the main loop sees should_exit, shuts down and the thread ends
ThreadExits ==
    /\ thread = "serving"
    /\ should_exit
    /\ thread' = "dead"
    /\ listening' = 0
    /\ UNCHANGED << patchVars, hid, spc, portArg, spArg, port, probe, started,
                    should_exit, taken, params, blockErr, sout, hist >>

\* another process binds a port nobody holds
TakePort(p) ==
    /\ ~(p \in taken)
    /\ p # listening
    /\ ~(probe = "bound" /\ port = p)
    /\ taken' = taken \cup {p}
    /\ UNCHANGED << patchVars, hid, spc, portArg, spArg, port, probe, thread, started,
                    should_exit, listening, params, blockErr, sout, hist >>

Init == PatchInit /\ ServerInit

Next ==
    \/ \E m \in UserModules : Import(m)
    \/ \E extras \in ExtraLists : PatchCall(extras)
    \/ \E one \in TargetPool : PatchCall(AsList(one))
    \/ PatchGuardFails
    \/ ProcessTarget
    \/ EnterBody
    \/ \E err \in BOOLEAN : BodyExit(err)
    \/ UndoStep
    \/ CloseEngine

Spec == Init /\ [][Next]_vars

\* patch() where releasing a resource may raise
ReleaseFailNext ==
    \/ Next
    \/ \E restored \in BOOLEAN : UndoStepFails(restored)
    \/ StackCloseRaises
    \/ CloseEngineFails

ReleaseFailSpec == Init /\ [][ReleaseFailNext]_vars

ServerNext ==
    \/ \E pa \in PortArgs, sa \in SessionArgs : ServerCall(pa, sa)
    \/ ProbeBind
    \/ ProbeClose
    \/ CreateServer
    \/ ThreadStart
    \/ PollAlive
    \/ PollStarted
    \/ CheckStarted
    \/ \E err \in BOOLEAN : BlockExit(err)
    \/ RequestExit
    \/ Join
    \/ ThreadBind
    \/ ThreadStarted
    \/ ThreadStartupFails
    \/ ThreadExits
    \/ \E p \in AllPorts : TakePort(p)

ServerSpec == Init /\ [][ServerNext]_vars

\* server() under fair scheduling: the calling context keeps running its own
\* statements (the poll, the test after it, the finally clause, the join once
\* the thread has ended), and a serving thread that sees should_exit ends.
\* The caller's block and the startup of the background thread carry no
\* fairness: either may go on forever.
ServerFairSpec ==
    /\ Init
    /\ [][ServerNext]_vars
    /\ WF_vars(PollAlive)
    /\ WF_vars(PollStarted)
    /\ WF_vars(CheckStarted)
    /\ WF_vars(RequestExit)
    /\ WF_vars(Join)
    /\ WF_vars(ThreadExits)

\* ------------------------------------------------------------------ patch(): properties

\* the invocation that passed the guard has handed control back to its caller
Exited == pc = "idle" /\ outcome \in {"Ok", "BodyError"}

SetupFailed == pc = "idle" /\ outcome \in {"ModuleNotFound", "NoModuleVar", "Unmapped"}

\* every symbol the invocation substituted holds the value it had at entry
Restored == \A i \in 1..Len(applied) :
                syms[applied[i].mod][applied[i].fn] = pre[applied[i].mod][applied[i].fn]

\* C1: once a patch() scope has exited, by normal return of the caller's block
\* or by its error, every symbol substituted during the scope is bound to the
\* value it had before the scope was entered; the block's error is delivered
\* only in such a state, with no undo record left pending.
RoundTripRestoration == Exited => (Restored /\ stack = << >>)

\* a scope with a substituted extra target was left by an error of the block
RoundTripWitness ==
    /\ pc = "idle"
    /\ outcome = "BodyError"
    /\ \E i \in 1..Len(applied) : applied[i].mod \in UserModules

\* C2: when an extra target names a symbol its module does not define, the
\* usage error propagates with every substitution of this pass undone.
SetupFailureUndone == (pc = "idle" /\ outcome = "NoModuleVar") => Restored

\* C3: a patch() call made while snowflake.connector.connect is a substitution
\* artifact changes nothing: no symbol, no undo record, no new engine, and the
\* invocation that is active stays where it is.
ReentryRejectedUnchanged ==
    [][(calls' # calls /\ IsMock(syms[SC]["connect"])) =>
          UNCHANGED << syms, loaded, pc, created, closed, fake_fns, targets, idx,
                       stack, bodyErr, outcome, pre, applied, imported, failedAt,
                       relErr, blockLoaded >>]_vars

\* a call was rejected from inside the block of the open scope
ReentryWitness == pc = "body" /\ calls > created /\ IsMock(syms[SC]["connect"])

\* C4: the engine of every invocation that has ended was closed exactly once,
\* and no engine is ever closed twice.
EngineReleasedExactlyOnce ==
    \A n \in 1..created :
        /\ closed[n] <= 1
        /\ (n < created \/ pc = "idle") => closed[n] = 1

\* the current value of the standard target a user module's name is an alias of
StdValue(f) == IF f = "connect" THEN syms[SC]["connect"] ELSE syms[PT]["write_pandas"]

CurrentFake(f) == IF f = "connect" THEN FakeConnect(created) ELSE FakeWritePandas

\* the target at position i names an alias of a standard target in a module
\* that this invocation's loop imported
LateAlias(i) ==
    /\ ModuleNameOf(targets[i]) \in imported
    /\ FnNameOf(targets[i]) \in {"connect", "write_pandas"}

\* C5: while the scope is open, an extra target whose module was first loaded
\* by this setup is bound to the very artifact installed for the standard
\* target it aliases, that artifact runs the current session's fake, and the
\* target was skipped: it pushed no undo record.
AliasedNamesYieldFake ==
    pc = "body" =>
        \A i \in 1..Len(targets) : LateAlias(i) =>
            LET m == ModuleNameOf(targets[i])
                f == FnNameOf(targets[i])
            IN  /\ IsMock(syms[m][f])
                /\ syms[m][f] = StdValue(f)
                /\ syms[m][f].ses = created
                /\ [k |-> syms[m][f].k, s |-> syms[m][f].s] = CurrentFake(f)
                /\ \A j \in 1..Len(stack) : ~(stack[j].mod = m /\ stack[j].fn = f)

AliasedNamesWitness ==
    /\ pc = "body"
    /\ \E i \in 1..Len(targets) : LateAlias(i) /\ FnNameOf(targets[i]) = "connect"

\* ------------------------------------------------------------------ server(): properties

\* server() has handed control back to its caller after the thread was started
ServerReturned == spc = "idle" /\ sout \in {"Ok", "BlockError", "StartupFailure"}

\* C6: a thread that ended without setting started never has parameters
\* yielded for it and never has the scope opened on it; the invocation ends in
\* the startup failure, and whatever was yielded was yielded with started set.
NoYieldWithoutStarted ==
    /\ params.set => started
    /\ (thread = "dead" /\ ~started) =>
          /\ ~params.set
          /\ spc \in {"poll_alive", "poll_started", "check", "idle"}
          /\ (spc = "idle" => sout = "StartupFailure")
    /\ sout = "StartupFailure" => ~params.set

StartupFailureWitness ==
    spc = "idle" /\ sout = "StartupFailure" /\ thread = "dead" /\ ~started

\* C7: whenever server() has handed control back after starting the thread,
\* by normal exit, by the block's error or by the startup failure, the thread
\* has ended and nothing listens any more.
ReturnOnlyAfterThreadEnded == ServerReturned => (thread = "dead" /\ listening = 0)

ReturnAfterBlockErrorWitness == spc = "idle" /\ sout = "BlockError" /\ thread = "dead"

\* C8: while the scope is open the background server is alive, has set
\* started, has not been asked to exit and accepts on the yielded port.
OpenScopeServerAlive ==
    spc = "yielded" =>
        /\ thread = "serving"
        /\ started /\ ~should_exit
        /\ params.set
        /\ listening = params.port
        /\ params.port \in AllPorts

OpenScopeProbedWitness == spc = "yielded" /\ ~portArg.given /\ listening \in EphemeralPorts

\* the state of handle h, from the position of the controlling context
HandleState(h) ==
    IF h > hid THEN "none"
    ELSE IF h < hid THEN hist[h]
    ELSE CASE spc = "start" -> "Created"
           [] spc \in {"poll_alive", "poll_started", "check"} -> "Starting"
           [] spc \in {"yielded", "finally"} -> "Ready"
           [] spc = "join" -> "StoppingRequested"
           [] OTHER -> hist[h]

HandleSteps ==
    { <<"none", "Created">>, <<"Created", "Starting">>, <<"Starting", "Ready">>,
      <<"Starting", "StartupFailed">>, <<"Ready", "StoppingRequested">>,
      <<"StoppingRequested", "Stopped">> }

\* C9: a handle moves only Created -> Starting -> Ready or StartupFailed, and
\* Ready -> StoppingRequested -> Stopped; nothing leaves Stopped or
\* StartupFailed, Ready is entered only with started set, and
\* StoppingRequested is entered only with should_exit set.
HandleStateMachine ==
    [][\A h \in Handles :
          /\ \/ HandleState(h)' = HandleState(h)
             \/ << HandleState(h), HandleState(h)' >> \in HandleSteps
          /\ (h = hid' /\ HandleState(h)' = "Ready") => started'
          /\ (h = hid' /\ HandleState(h)' = "StoppingRequested") => should_exit']_vars

\* a second handle runs after the first one was stopped
HandleStoppedWitness == hid = 2 /\ hist[1] = "Stopped" /\ HandleState(2) = "StoppingRequested"

\* the caller's mapping, {} for None
CallerMap == IF spArg.none THEN EmptyMap ELSE spArg.map

\* C10: the yielded session_parameters hold the caller's value for every key
\* of the caller's mapping, the default for the telemetry key when the caller
\* does not give it, and no other key; with no caller mapping they are exactly
\* the default.
SessionParametersMerged ==
    params.set =>
        LET y == params.session_parameters
        IN  /\ DOMAIN y = DOMAIN CallerMap \cup {TelemetryKey}
            /\ \A k \in DOMAIN CallerMap : y[k] = CallerMap[k]
            /\ (TelemetryKey \notin DOMAIN CallerMap) => y[TelemetryKey] = "False"
            /\ spArg.none => y = DefaultSessionParameters

SessionParametersOverrideWitness ==
    /\ params.set
    /\ ~spArg.none
    /\ DOMAIN spArg.map = ParamKeys
    /\ spArg.map[TelemetryKey] = "True"
    /\ params.session_parameters[TelemetryKey] = "True"

\* ------------------------------------------------------------------ patch(): order

\* the undo record r was pushed for the qualified name im
RecordOf(r, im) == r.mod = ModuleNameOf(im) /\ r.fn = FnNameOf(im)

\* the undo records follow the order of the target list
InTargetOrder(recs, tgts) ==
    \A i, j \in 1..Len(recs) : i < j =>
        \E p, q \in 1..Len(tgts) : p < q /\ RecordOf(recs[i], tgts[p]) /\ RecordOf(recs[j], tgts[q])

\* C11: the loop visits the two standard targets first and then the extra
\* targets in the caller's order, pushing one undo record per substitution and
\* none for a skipped target; teardown removes the records one at a time from
\* the end of the stack, each step restoring the record it removes, so the
\* undo order is the exact reverse of the push order.
SubstitutionOrder ==
    [][/\ (pc' \in {"loop", "body"}) =>
              /\ SubSeq(targets', 1, 2) = std_targets
              /\ stack' = applied'
              /\ InTargetOrder(applied', targets')
       /\ (pc = "loop" /\ idx' = idx + 1) =>
              LET im == targets[idx]
                  v == syms'[ModuleNameOf(im)][FnNameOf(im)]
              IN  IF v.ses = created /\ v.at = idx
                  THEN /\ Len(stack') = Len(stack) + 1
                       /\ RecordOf(stack'[Len(stack')], im)
                       /\ SubSeq(stack', 1, Len(stack)) = stack
                  ELSE stack' = stack
       /\ (pc' = "teardown") => stack' = SubSeq(applied', 1, Len(stack'))
       /\ (pc = "teardown" /\ stack' # stack) =>
              /\ stack' = SubSeq(stack, 1, Len(stack) - 1)
              /\ syms' = Restore(syms, stack[Len(stack)])]_vars

\* teardown has undone the extra target's record and not yet the standard
\* ones, in a scope that skipped one of its targets
SubstitutionOrderWitness ==
    /\ pc = "teardown"
    /\ Len(applied) = 3
    /\ Len(stack) = 2
    /\ Len(targets) = 4

\* a real callable of the connector
IsOriginal(v) == v \in {Orig("connect"), Orig("write_pandas")}

\* C12: whatever the target list (a target listed twice, an extra target that
\* names a standard target, aliases of one callable in several modules), every
\* undo record holds a real original callable as the value to restore, never
\* a MagicMock, and no name has two undo records in one invocation.
NoDoubleSubstitution ==
    /\ \A i \in 1..Len(applied) : ~IsMock(applied[i].orig) /\ IsOriginal(applied[i].orig)
    /\ \A i, j \in 1..Len(applied) :
          (applied[i].mod = applied[j].mod /\ applied[i].fn = applied[j].fn) => i = j

\* an open scope whose list names one alias twice
NoDoubleSubstitutionWitness ==
    /\ pc = "body"
    /\ Len(targets) = 4
    /\ targets[3] = targets[4]
    /\ Len(applied) = 3

\* the fake the MagicMock v runs
FakeOf(v) == [k |-> v.k, s |-> v.s]

\* C13: every substitution replaces a value that is, by identity, a key of the
\* registry and one of the two original callables, and installs a MagicMock
\* running the fake the registry maps that key to; a target bound to a value
\* that is neither a key nor a MagicMock ends setup with the unmapped-target
\* error, is left bound to that value and gets no undo record.
InstallOnlyRegistered ==
    /\ \A i \in 1..Len(applied) :
          /\ applied[i].orig \in DOMAIN fake_fns
          /\ IsOriginal(applied[i].orig)
          /\ (pc \in {"loop", "body"}) =>
                /\ IsMock(syms[applied[i].mod][applied[i].fn])
                /\ FakeOf(syms[applied[i].mod][applied[i].fn]) = fake_fns[applied[i].orig]
    /\ (pc = "idle" /\ outcome = "Unmapped") =>
          LET m == ModuleNameOf(failedAt)
              f == FnNameOf(failedAt)
          IN  /\ ~IsMock(syms[m][f])
              /\ ~(syms[m][f] \in DOMAIN fake_fns)
              /\ \A i \in 1..Len(applied) : ~RecordOf(applied[i], failedAt)

UnmappedTargetWitness ==
    /\ pc = "idle"
    /\ outcome = "Unmapped"
    /\ failedAt = <<"app", "helper">>
    /\ Len(applied) = 3

\* ------------------------------------------------------------------ patch(): release failures

\* the invocation went through its finally clause and has ended
TornDown == pc = "idle" /\ outcome \in {"Ok", "BodyError", "ReleaseError"}

\* C14: after a teardown in which one release raised, every undo step has
\* still been carried out, the engine has still been closed, and when the
\* caller's block had raised, its error is the one that propagates.
ReleaseFailureTolerated ==
    TornDown =>
        /\ stack = << >>
        /\ closed[created] >= 1
        /\ bodyErr => outcome = "BodyError"

\* ------------------------------------------------------------------ server(): flags and termination

\* a step of the background thread: the calling context stays where it is
BackgroundStep == thread' # thread /\ spc' = spc /\ hid' = hid

\* C15: started is written only by the background thread and should_exit only
\* by the calling context; within one handle each goes from false to true and
\* never back (a later call of server() makes a new server object with both
\* false); should_exit is set in the step from the finally clause to the join,
\* so before the join begins, only once the parameters were yielded, and it is
\* set whenever server() returns from a handle that was Ready.
FlagDiscipline ==
    [][ /\ (started' # started) =>
              \/ hid' # hid /\ ~started'
              \/ started' /\ BackgroundStep
        /\ (should_exit' # should_exit) =>
              \/ hid' # hid /\ ~should_exit'
              \/ /\ should_exit' /\ hid' = hid
                 /\ spc = "finally" /\ spc' = "join"
                 /\ thread' = thread
                 /\ started /\ params.set
        /\ (spc # "join" /\ spc' = "join") => (~should_exit /\ should_exit')
        /\ (spc' \in {"probe", "probe_close", "create", "start", "poll_alive",
                      "poll_started", "check", "yielded", "finally"}) => ~should_exit'
        /\ (spc' = "idle" /\ sout' \in {"Ok", "BlockError"}) => should_exit'
        /\ (spc' = "idle" /\ sout' = "StartupFailure") => ~should_exit'
      ]_vars

\* the exit request is set while the join has not yet returned and the server
\* is still serving
FlagDisciplineWitness ==
    spc = "join" /\ should_exit /\ started /\ thread = "serving" /\ hid = 2

\* the calling context is in the readiness poll of lines 125-126
Polling == spc \in {"poll_alive", "poll_started"}

\* the condition that ends the poll
PollDone == ~IsAlive(thread) \/ started

\* C16: the poll is left only when the thread has ended or started is true, so
\* a thread that does neither keeps the caller in the poll forever; and once
\* one of the two has happened, server() goes on to yield its parameters or to
\* raise the startup failure.
PollEndsExactlyWhenDone ==
    /\ [][(Polling /\ ~Polling') => (PollDone /\ spc' = "check")]_vars
    /\ (Polling /\ PollDone) ~> (spc = "yielded" \/ (spc = "idle" /\ sout = "StartupFailure"))

\* the poll has ended on started = true with the thread serving
PollEndedWitness == spc = "check" /\ started /\ thread = "serving" /\ hid = 2

\* C17: once the caller's block has exited, server() returns with the handle
\* Stopped, and the join is left only with the thread ended.
ScopeExitEventuallyStops ==
    /\ [][(spc = "join" /\ spc' # "join") => (~IsAlive(thread) /\ spc' = "idle")]_vars
    /\ (spc = "finally") ~>
          (spc = "idle" /\ sout \in {"Ok", "BlockError"} /\ hist[hid] = "Stopped" /\ thread = "dead")

\* server() has returned normally from a handle that was Ready
StoppedAfterReadyWitness ==
    spc = "idle" /\ sout = "Ok" /\ hist[hid] = "Stopped" /\ thread = "dead" /\ should_exit

\* ------------------------------------------------------------------ server(): the port

\* the port is settled by the time the thread object exists
PortResolved ==
    /\ (thread # "none") =>
          /\ port # 0
          /\ IF Falsy(portArg)
             THEN probe = "closed" /\ port \in EphemeralPorts
             ELSE probe = "none" /\ port = portArg.n
    /\ params.set => (params.port = port /\ started)
    /\ (listening # 0) => listening = port
    /\ (spc = "idle" /\ thread = "dead" /\ ~started) => sout = "StartupFailure"

\* C18: the port is resolved before the thread is started: a supplied
\* non-zero port is used as it is with no probe socket, an absent port is
\* probed with the probe socket closed before the thread exists, the yielded
\* port is the configured one, and a thread that finds its port taken by
\* another process can only end without listening, which makes server() raise
\* the startup failure.
PortResolvedBeforeStart ==
    /\ []PortResolved
    /\ [][ /\ (port' # port) => thread' = "none"
           /\ (thread \in {"new", "running"} /\ port \in taken /\ hid' = hid) =>
                 (thread' \in {"new", "running", "dead"} /\ listening' = 0 /\ ~started')
         ]_vars

\* the probed port was taken by another process between the probe's close and
\* the server's bind
ProbedPortTakenWitness ==
    thread = "running" /\ Falsy(portArg) /\ probe = "closed" /\ port \in taken

\* ------------------------------------------------------------------ patch(): leftovers

\* C19: after a scope has exited, no symbol of any loaded module is bound to
\* a mock, the modules first loaded during that scope's setup included. (The
\* modules the caller's own block imported while a scope was open are left
\* out: what they bound is the caller's doing.)
NoArtifactAfterExit ==
    Exited => \A m \in loaded \ blockLoaded, f \in SymNames : ~IsMock(syms[m][f])

\* C20: while a scope is open, every named target is bound to a mock whose
\* side effect is the fake of the session that is open now. (Targets in
\* modules the caller's own block imported while a scope was open are left
\* out.)
TargetsInvokeCurrentFake ==
    pc = "body" =>
        \A i \in 1..Len(targets) : ModuleNameOf(targets[i]) \notin blockLoaded =>
            LET v == syms[ModuleNameOf(targets[i])][FnNameOf(targets[i])]
            IN  IsMock(v) /\ FakeOf(v) = CurrentFake(v.k)
====
